---- MODULE Spec2Model ----
\* Model of DownloaderApp (src/src/downloader.py): run, download_photos and
\* remove_missing acting on a destination directory.
EXTENDS FiniteSets, Integers, Sequences, TLC

\* ---------------------------------------------------------------- bounds
\* Longest remote listing (api.photos.all) explored.
MaxLen == 2
\* Number of consecutive invocations of download_photos explored.
MaxRuns == 2
\* Most entries of the initial destination that are neither absent nor a
\* regular file (directories, symbolic links).
MaxSpecial == 1
\* Longest content stream of a remote item, in bytes.
MaxBytes == 3
\* Bytes one read of the copy loop returns at most.
ChunkLen == 2
\* Largest number of -v flags (args["verbose"]).
MaxVerbose == 6

\* File names a remote item or a directory entry may carry (plain names,
\* no path separator).
Names == {"a.jpg", "b.jpg", "c.jpg"}

\* config["destination"], an absolute path, as its sequence of components.
destination == <<"photos">>

\* ---------------------------------------------------------------- state
VARIABLES
    L,                 \* api.photos.all: the remote listing, a sequence of filenames
    cfgfile,           \* the [main] section of the config file: option -> value
    args,              \* the command-line arguments: option -> value
    overwrite,         \* config["overwrite"], as the conditions of the code read it
    remove,            \* config["remove"], as the conditions of the code read it
    fs,                \* the destination directory: name -> directory entry
    pc,                \* position in run / download_photos / remove_missing
    pass,              \* which invocation of download_photos this is
    downloaded_count,
    overwritten_count,
    skipped_count,
    total_count,
    icloud_photos,     \* the set download_photos builds and returns
    opened,            \* number of photo.download() calls that returned a stream
    summary,           \* the "Downloaded: .. | Skipped: .." line, once printed
    photos_for_removal,\* remove_missing's candidate set (entry names)
    printed,           \* candidate names printed by remove_missing so far
    confirms,          \* number of click.confirm calls
    answer,            \* what click.confirm returned
    removed,           \* paths os.unlink has deleted
    report,            \* what remove_missing reported at its end
    err,               \* the exception that left run, if any
    fs_start,          \* fs when the current download_photos was entered
    fs_removal,        \* fs when remove_missing was entered
    prev,              \* outcome of the previous download_photos invocation
    copy,              \* one call of _copyfileobj: streams, declared size, progress
    handles,           \* file and stream handles opened and not closed
    api                \* the PyiCloudService session: what two-step authentication did

vars == <<L, cfgfile, args, overwrite, remove, fs, pc, pass, downloaded_count, overwritten_count,
          skipped_count, total_count, icloud_photos, opened, summary,
          photos_for_removal, printed, confirms, answer, removed, report, err,
          fs_start, fs_removal, prev, copy, handles, api>>

\* ---------------------------------------------------------------- file system
\* Content of a file: the bytes of remote item `item` (0: what was there before
\* the program ran), complete or cut short by a failed copy.
NoContent == [item |-> 0, state |-> "none"]
OldContent == [item |-> 0, state |-> "full"]
FullContent(i) == [item |-> i, state |-> "full"]
PartialContent(i) == [item |-> i, state |-> "partial"]

\* Kinds of directory entry: nothing, a regular file, a directory (its content
\* stands for the files inside it), a symbolic link to a regular file outside
\* the tree, a symbolic link whose target does not exist.
Kinds == {"absent", "file", "dir", "link", "dangling"}

Absent == [kind |-> "absent", content |-> NoContent]

InitialEntries ==
    { [kind |-> k, content |-> IF k \in {"file", "link", "dir"} THEN OldContent ELSE NoContent]
      : k \in Kinds }

\* os.path.join(directory, name) for a plain name.
Join(dir, name) == dir \o <<name>>

\* os.path.isfile(path): follows symbolic links.
IsFileFollow(e) == e.kind \in {"file", "link"}

\* Variant of IsFileNoFollow: symbolic links are followed.
IsFileNoFollowMutant(e) == e.kind \in {"file", "link"}

\* DirEntry.is_file(follow_symlinks=False).
IsFileNoFollow(e) == e.kind = "file"

\* Variant of Written: a write through a dangling link leaves it dangling.
WrittenMutant(e, c) ==
    [kind |-> IF e.kind = "absent" THEN "file" ELSE e.kind, content |-> c]

\* open(filename, "wb") succeeded and `c` was written: a regular file is
\* created or replaced, a symbolic link is written through.
Written(e, c) ==
    [kind |-> CASE e.kind = "absent" -> "file"
                [] e.kind = "dangling" -> "link"
                [] OTHER -> e.kind,
     content |-> c]

\* Names of the top-level regular files of a directory state.
RegularFiles(f) == { n \in Names : f[n].kind = "file" }

\* ---------------------------------------------------------------- listings
Listings == UNION { [1..k -> Names] : k \in 0..MaxLen }

\* Target paths of the first k items of the listing.
Targets(k) == { Join(destination, L[i]) : i \in 1..k }

NoReport == [kind |-> "none", count |-> 0]

NoPrev == [ok |-> FALSE, overwrite |-> FALSE, fs |-> [n \in Names |-> Absent],
           err |-> "none", at |-> 0]

\* No _copyfileobj call is being followed.
NoCopy == [pc |-> "idle", data |-> <<>>, fsrc |-> <<>>, fdst |-> <<>>, size |-> 0,
           verbose |-> 0, n |-> 0, bar |-> "none"]

\* ---------------------------------------------------------------- get_config
\* The boolean options of DEFAULTS.
Options == {"overwrite", "remove"}

\* Python values an option can hold: a bool, a str, or nothing (the key is
\* not in the mapping).
Missing == [type |-> "missing", val |-> ""]
PyBool(b) == [type |-> "bool", val |-> IF b THEN "True" ELSE "False"]
PyStr(w) == [type |-> "str", val |-> w]

\* DEFAULTS["overwrite"], DEFAULTS["remove"].
DEFAULTS == [o \in Options |-> PyBool(FALSE)]

\* What ConfigParser yields for an option of [main]: always a string.
FileValues == {Missing, PyStr("false"), PyStr("true"), PyStr("")}

\* What the command line yields for an option: a bool, when given.
ArgValues == {Missing, PyBool(FALSE), PyBool(TRUE)}

\* get_config: the default, replaced by the value of the config file, replaced
\* by the value of the command line.
GetConfig(file, cli) ==
    [o \in Options |->
        LET fromFile == IF file[o] # Missing THEN file[o] ELSE DEFAULTS[o]
        IN  IF cli[o] # Missing THEN cli[o] ELSE fromFile]

\* Truth value of a Python value in `if v` / `if not v`.
Truthy(v) ==
    CASE v.type = "bool" -> v.val = "True"
      [] v.type = "str" -> v.val # ""
      [] OTHER -> FALSE

\* No session yet: PyiCloudService has not been constructed.
NoApi == [requires_2sa |-> FALSE, sent |-> FALSE, validated |-> FALSE]

\* The program was constructed with a config file and a command line drawn
\* from `files` and `clis`, over a destination with at most `special`
\* entries that are neither absent nor regular files.
InitWith(files, clis, special) ==
    /\ L \in Listings
    /\ cfgfile \in [Options -> files]
    /\ args \in [Options -> clis]
    /\ overwrite = Truthy(GetConfig(cfgfile, args)["overwrite"])
    /\ remove = Truthy(GetConfig(cfgfile, args)["remove"])
    /\ fs \in [Names -> InitialEntries]
    /\ Cardinality({ n \in Names : fs[n].kind \notin {"absent", "file"} }) <= special
    /\ pc = "connect"
    /\ api = NoApi
    /\ pass = 0
    /\ downloaded_count = 0
    /\ overwritten_count = 0
    /\ skipped_count = 0
    /\ total_count = 0
    /\ icloud_photos = {}
    /\ opened = 0
    /\ summary = <<>>
    /\ photos_for_removal = {}
    /\ printed = {}
    /\ confirms = 0
    /\ answer = "none"
    /\ removed = {}
    /\ report = NoReport
    /\ err = "none"
    /\ fs_start = fs
    /\ fs_removal = fs
    /\ prev = NoPrev
    /\ copy = NoCopy
    /\ handles = {}

\* No config file; each option is a flag of the command line, given or not.
Init == InitWith({Missing}, {Missing, PyBool(TRUE)}, MaxSpecial)

\* Any config file and any command line, over a destination of regular files.
InitConfig == InitWith(FileValues, ArgValues, 0)

removalVars == <<photos_for_removal, printed, confirms, answer, removed, report, fs_removal>>
counterVars == <<downloaded_count, overwritten_count, skipped_count, total_count>>
configVars == <<L, remove>>
flagVars == <<args, overwrite>>
auxVars == <<copy, cfgfile, api>>

\* ---------------------------------------------------------------- connect_to_icloud
\* The exceptions that leave connect_to_icloud: the constructor of
\* PyiCloudService raised, or one of the two raise statements was reached.
ConnectErrors == {"login", "Failed to send verification code",
                  "Failed to verify verification code"}

\* What run leaves untouched while connect_to_icloud is running or has raised.
untouchedVars == <<configVars, flagVars, copy, cfgfile, handles, fs, pass, counterVars,
                   icloud_photos, opened, summary, removalVars, fs_start, prev>>

\* run calls connect_to_icloud: the session is created, and either it needs
\* two-step authentication or connect_to_icloud returns at once.
Login(ok, twosa) ==
    /\ pc = "connect"
    /\ IF ~ok
       THEN pc' = "failed" /\ err' = "login" /\ api' = api
       ELSE /\ pc' = IF twosa THEN "send_verification_code" ELSE "run"
            /\ api' = [api EXCEPT !.requires_2sa = twosa]
            /\ err' = err
    /\ UNCHANGED untouchedVars

\* Where connect_to_icloud goes once send_verification_code has returned.
AfterSend(sent) == IF sent THEN "validate_verification_code" ELSE "failed"

\* api.send_verification_code(device) returns `sent`.
SendCode(sent) ==
    /\ pc = "send_verification_code"
    /\ api' = [api EXCEPT !.sent = sent]
    /\ pc' = AfterSend(sent)
    /\ err' = IF pc' = "failed" THEN "Failed to send verification code" ELSE err
    /\ UNCHANGED untouchedVars

\* Variant of AfterValidate: a rejected code is accepted.
AfterValidateMutant(valid) == "run"

\* Where run goes once validate_verification_code has returned.
AfterValidate(valid) == IF valid THEN "run" ELSE "failed"

\* api.validate_verification_code(device, code) returns `valid`.
ValidateCode(valid) ==
    /\ pc = "validate_verification_code"
    /\ api' = [api EXCEPT !.validated = valid]
    /\ pc' = AfterValidate(valid)
    /\ err' = IF pc' = "failed" THEN "Failed to verify verification code" ELSE err
    /\ UNCHANGED untouchedVars

\* ---------------------------------------------------------------- download_photos
\* run calls download_photos: counters and the set start fresh.
EnterDownload ==
    /\ pc = "run"
    /\ pass < MaxRuns
    /\ pc' = "loop"
    /\ pass' = pass + 1
    /\ downloaded_count' = 0
    /\ overwritten_count' = 0
    /\ skipped_count' = 0
    /\ total_count' = 0
    /\ icloud_photos' = {}
    /\ opened' = 0
    /\ summary' = <<>>
    /\ fs_start' = fs
    /\ handles' = {}
    /\ UNCHANGED <<configVars, auxVars, flagVars, fs, removalVars, err, prev>>

\* Errors raised inside download_photos.
DownloadErrors == {"listing", "download_error", "open_error", "copy_error"}

\* Variant of RaisedInDownload: the exception is swallowed and run goes on.
RaisedInDownloadMutant == "returned"

\* Variant of RaisedInDownload: the item is given up and the loop goes on.
RaisedInDownloadContinues == "loop"

\* The pc an exception raised inside download_photos leads to: nothing in
\* download_photos or run catches it.
RaisedInDownload == "failed"

\* The listing iterator raises while fetching the next item.
ListingFails ==
    /\ pc = "loop"
    /\ total_count < Len(L)
    /\ pc' = RaisedInDownload
    /\ err' = "listing"
    /\ UNCHANGED <<configVars, auxVars, handles, flagVars, fs, pass, counterVars, icloud_photos, opened,
                   summary, removalVars, fs_start, prev>>

\* Variant of AddOwned: a skipped item's path is not added.
AddOwnedMutant(s, path, skip) == IF skip THEN s ELSE s \cup {path}

\* The set after the loop body's icloud_photos.add(filename).
AddOwned(s, path, skip) == s \cup {path}

\* Variant of Classify: the overwrite flag is read inverted.
ClassifyMutant(e, ow) ==
    IF IsFileFollow(e)
    THEN IF ow THEN "skip-existing" ELSE "overwrite-existing"
    ELSE "download-new"

\* The branch the loop body takes for an item whose target is entry `e`.
Classify(e, ow) ==
    IF IsFileFollow(e)
    THEN IF ~ow THEN "skip-existing" ELSE "overwrite-existing"
    ELSE "download-new"

\* One loop iteration that takes the skip branch.
SkipExisting ==
    /\ pc = "loop"
    /\ total_count < Len(L)
    /\ LET name == L[total_count + 1]
           path == Join(destination, name)
       IN  /\ Classify(fs[name], overwrite) = "skip-existing"
           /\ total_count' = total_count + 1
           /\ icloud_photos' = AddOwned(icloud_photos, path, TRUE)
           /\ skipped_count' = skipped_count + 1
    /\ UNCHANGED <<configVars, auxVars, handles, flagVars, fs, pc, pass, downloaded_count, overwritten_count,
                   opened, summary, removalVars, err, fs_start, prev>>

\* Outcomes of the transfer of one item.
TransferOutcomes == {"ok", "download_error", "open_error", "copy_error"}

\* Variant of DownloadedAfter: an overwrite does not count as downloaded.
DownloadedAfterMutant(d, action, outcome) ==
    IF outcome = "ok" /\ action = "download-new" THEN d + 1 ELSE d

\* downloaded_count after the loop body ran for an item of branch `action`.
DownloadedAfter(d, action, outcome) ==
    IF outcome = "ok" THEN d + 1 ELSE d

\* The handles an iteration leaves open. The sink is opened in a with block
\* (l.182), which closes it on every path. The stream photo.download()
\* returned (l.181) is closed nowhere in the code: read to its end it is
\* released by the HTTP library; when open() or the copy raises it stays open.
HandlesLeftOpen(i, outcome) ==
    IF outcome \in {"open_error", "copy_error"}
    THEN {[item |-> i, kind |-> "stream"]}
    ELSE {}

\* One loop iteration that downloads: a new file or an overwrite.
Transfer(outcome) ==
    /\ pc = "loop"
    /\ total_count < Len(L)
    /\ LET i == total_count + 1
           name == L[i]
           path == Join(destination, name)
           action == Classify(fs[name], overwrite)
           exists == action = "overwrite-existing"
       IN  /\ action # "skip-existing"
           \* open(.., "wb") on a directory always raises
           /\ fs[name].kind = "dir" => outcome \in {"download_error", "open_error"}
           /\ total_count' = total_count + 1
           /\ icloud_photos' = AddOwned(icloud_photos, path, FALSE)
           /\ overwritten_count' = IF exists THEN overwritten_count + 1 ELSE overwritten_count
           /\ opened' = IF outcome = "download_error" THEN opened ELSE opened + 1
           /\ fs' = CASE outcome = "ok" -> [fs EXCEPT ![name] = Written(@, FullContent(i))]
                      [] outcome = "copy_error" -> [fs EXCEPT ![name] = Written(@, PartialContent(i))]
                      [] OTHER -> fs
           /\ downloaded_count' = DownloadedAfter(downloaded_count, action, outcome)
           /\ pc' = IF outcome = "ok" THEN "loop" ELSE RaisedInDownload
           /\ err' = IF outcome = "ok" THEN err ELSE outcome
           /\ handles' = handles \cup HandlesLeftOpen(i, outcome)
    /\ UNCHANGED <<configVars, auxVars, flagVars, pass, skipped_count, summary, removalVars, fs_start,
                   prev>>

\* The listing is exhausted: print the summary and return the set.
ReturnDownload ==
    /\ pc = "loop"
    /\ total_count = Len(L)
    /\ summary' = <<downloaded_count, skipped_count, overwritten_count, total_count>>
    /\ pc' = "returned"
    /\ UNCHANGED <<configVars, auxVars, handles, flagVars, fs, pass, counterVars, icloud_photos, opened,
                   removalVars, err, fs_start, prev>>

\* The program is started again on the same listing and destination, after a
\* download_photos that returned or failed.
Rerun(ow) ==
    /\ \/ pc = "returned"
       \/ pc = "failed" /\ err \in DownloadErrors
    /\ pass < MaxRuns
    /\ pc' = "run"
    /\ args' = [args EXCEPT !["overwrite"] = IF ow THEN PyBool(TRUE) ELSE Missing]
    /\ overwrite' = Truthy(GetConfig(cfgfile, args')["overwrite"])
    /\ err' = "none"
    /\ prev' = [ok |-> pc = "returned", overwrite |-> overwrite, fs |-> fs,
                err |-> err, at |-> total_count]
    /\ UNCHANGED <<configVars, auxVars, handles, fs, pass, counterVars, icloud_photos, opened, summary,
                   removalVars, fs_start>>

\* ---------------------------------------------------------------- remove_missing
\* run: config["remove"] is false, nothing more to do.
FinishWithoutRemove ==
    /\ pc = "returned"
    /\ ~remove
    /\ pc' = "done"
    /\ UNCHANGED <<configVars, auxVars, handles, flagVars, fs, pass, counterVars, icloud_photos, opened,
                   summary, removalVars, err, fs_start, prev>>

\* Variant of Candidates: the ownership set is not consulted.
CandidatesMutant(f, owned) == { n \in Names : IsFileNoFollow(f[n]) }

\* The entries of the destination that remove_missing keeps for removal.
Candidates(f, owned) ==
    { n \in Names : IsFileNoFollow(f[n]) /\ Join(destination, n) \notin owned }

\* run calls remove_missing, which scans the destination.
Scan ==
    /\ pc = "returned"
    /\ remove
    /\ fs_removal' = fs
    /\ photos_for_removal' = Candidates(fs, icloud_photos)
    /\ pc' = "scanned"
    /\ UNCHANGED <<configVars, auxVars, handles, flagVars, fs, pass, counterVars, icloud_photos, opened,
                   summary, printed, confirms, answer, removed, report, err, fs_start, prev>>

\* No candidate: "Nothing to do." and return.
NothingToDo ==
    /\ pc = "scanned"
    /\ photos_for_removal = {}
    /\ report' = [kind |-> "nothing", count |-> 0]
    /\ pc' = "done"
    /\ UNCHANGED <<configVars, auxVars, handles, flagVars, fs, pass, counterVars, icloud_photos, opened,
                   summary, photos_for_removal, printed, confirms, answer, removed, err,
                   fs_start, fs_removal, prev>>

\* The "Missing photos (n):" header and one line per candidate.
PrintMissing ==
    /\ pc = "scanned"
    /\ photos_for_removal # {}
    /\ printed' = photos_for_removal
    /\ pc' = "confirm"
    /\ UNCHANGED <<configVars, auxVars, handles, flagVars, fs, pass, counterVars, icloud_photos, opened,
                   summary, photos_for_removal, confirms, answer, removed, report, err,
                   fs_start, fs_removal, prev>>

\* Variant of AfterConfirm: the answer is not tested.
AfterConfirmMutant(ans) == IF ans = "abort" THEN "failed" ELSE "unlink"

\* Where remove_missing goes after click.confirm answered.
AfterConfirm(ans) ==
    CASE ans = "yes" -> "unlink"
      [] ans = "no" -> "done"
      [] OTHER -> "failed"

\* click.confirm("Proceed with removal?"): yes, no, or click.Abort raised.
Confirm(ans) ==
    /\ pc = "confirm"
    /\ confirms' = confirms + 1
    /\ answer' = ans
    /\ pc' = AfterConfirm(ans)
    /\ report' = IF ans = "no" THEN [kind |-> "aborted", count |-> 0] ELSE report
    /\ err' = IF ans = "abort" THEN "abort" ELSE err
    /\ UNCHANGED <<configVars, auxVars, handles, flagVars, fs, pass, counterVars, icloud_photos, opened,
                   summary, photos_for_removal, printed, removed, fs_start,
                   fs_removal, prev>>

\* Candidates the removal loop has not reached yet.
Pending == { n \in photos_for_removal : Join(destination, n) \notin removed }

\* Variant of RaisedInUnlink: the exception is swallowed and the loop goes on.
RaisedInUnlinkMutant == "unlink"

\* The pc an exception raised by os.unlink leads to: nothing catches it.
RaisedInUnlink == "failed"

\* One iteration of the removal loop (set order is arbitrary).
Unlink(name, ok) ==
    /\ pc = "unlink"
    /\ name \in Pending
    /\ IF ok
       THEN /\ fs' = [fs EXCEPT ![name] = Absent]
            /\ removed' = removed \cup {Join(destination, name)}
            /\ UNCHANGED <<pc, err>>
       ELSE /\ pc' = RaisedInUnlink
            /\ err' = "unlink"
            /\ UNCHANGED <<fs, removed>>
    /\ UNCHANGED <<configVars, auxVars, handles, flagVars, pass, counterVars, icloud_photos, opened, summary,
                   photos_for_removal, printed, confirms, answer, report, fs_start,
                   fs_removal, prev>>

\* The loop is over: "Removed n files".
ReportRemoved ==
    /\ pc = "unlink"
    /\ Pending = {}
    /\ report' = [kind |-> "removed", count |-> Cardinality(photos_for_removal)]
    /\ pc' = "done"
    /\ UNCHANGED <<configVars, auxVars, handles, flagVars, fs, pass, counterVars, icloud_photos, opened,
                   summary, photos_for_removal, printed, confirms, answer, removed, err,
                   fs_start, fs_removal, prev>>

Next ==
    \/ \E ok \in BOOLEAN, twosa \in BOOLEAN : Login(ok, twosa)
    \/ \E sent \in BOOLEAN : SendCode(sent)
    \/ \E valid \in BOOLEAN : ValidateCode(valid)
    \/ EnterDownload
    \/ ListingFails
    \/ SkipExisting
    \/ \E o \in TransferOutcomes : Transfer(o)
    \/ ReturnDownload
    \/ FinishWithoutRemove
    \/ Scan
    \/ NothingToDo
    \/ PrintMissing
    \/ \E ans \in {"yes", "no", "abort"} : Confirm(ans)
    \/ \E n \in Names, ok \in BOOLEAN : Unlink(n, ok)
    \/ ReportRemoved

\* One invocation of run.
Spec == Init /\ [][Next]_vars

NextRerun ==
    \/ Next
    \/ \E ow \in BOOLEAN : Rerun(ow)

\* Invocations of run one after the other on the same listing and destination.
SpecRerun == Init /\ [][NextRerun]_vars

\* One run of the program configured from any config file and command line.
SpecConfig == InitConfig /\ [][Next]_vars

\* ---------------------------------------------------------------- _copyfileobj
\* logging levels.
CRITICAL == 50
ERROR == 40
INFO == 20
DEBUG == 10

\* The byte values a stream is made of.
Bytes == {0, 1}

\* photo.size as declared by the remote side.
Sizes == (0 - 1)..(MaxBytes + 1)

Min(a, b) == IF a < b THEN a ELSE b

\* self.logger.level as __init__ sets it from args["verbose"].
LoggerLevel(verbose) ==
    LET level == CRITICAL - (verbose - 1) * 10
    IN  IF level < DEBUG THEN ERROR ELSE Min(level, CRITICAL)

\* _copyfileobj takes the shutil.copyfileobj branch.
PlainCopy(level, size) == level <= INFO \/ size <= 0

\* One read of shutil.copyfileobj's loop: at most a buffer's worth of what is
\* left of the stream.
ShutilChunk(src) == SubSeq(src, 1, Min(ChunkLen, Len(src)))

\* One read of Copy.fileobj's loop (utils.Copy): the same bounded read, the
\* callback being told the chunk's length afterwards.
CopyFileobjChunk(src) == SubSeq(src, 1, Min(ChunkLen, Len(src)))

\* Variant of ReadChunk: with a progress bar, no more than the declared size
\* is read.
ReadChunkMutant(c) ==
    IF PlainCopy(LoggerLevel(c.verbose), c.size)
    THEN ShutilChunk(c.fsrc)
    ELSE SubSeq(c.fsrc, 1, Min(Min(ChunkLen, Len(c.fsrc)),
                               IF c.size > c.n THEN c.size - c.n ELSE 0))

\* The chunk the next read of _copyfileobj returns.
ReadChunk(c) ==
    IF PlainCopy(LoggerLevel(c.verbose), c.size)
    THEN ShutilChunk(c.fsrc)
    ELSE CopyFileobjChunk(c.fsrc)

\* download_photos is at l.184 for the only item of a one-item listing, whose
\* stream holds any bytes and whose size is declared as any number.
InitCopy ==
    /\ L = <<"a.jpg">>
    /\ cfgfile = [o \in Options |-> Missing]
    /\ args = [o \in Options |-> Missing]
    /\ overwrite = FALSE
    /\ remove = FALSE
    /\ fs = [n \in Names |-> Absent]
    /\ pc = "copy"
    /\ pass = 1
    /\ downloaded_count = 0
    /\ overwritten_count = 0
    /\ skipped_count = 0
    /\ total_count = 1
    /\ icloud_photos = Targets(1)
    /\ opened = 1
    /\ summary = <<>>
    /\ photos_for_removal = {}
    /\ printed = {}
    /\ confirms = 0
    /\ answer = "none"
    /\ removed = {}
    /\ report = NoReport
    /\ err = "none"
    /\ fs_start = fs
    /\ fs_removal = fs
    /\ prev = NoPrev
    /\ handles = {}
    /\ api = NoApi
    /\ \E data \in UNION { [1..k -> Bytes] : k \in 0..MaxBytes },
          size \in Sizes, verbose \in 0..MaxVerbose :
          copy = [pc |-> "copying", data |-> data, fsrc |-> data, fdst |-> <<>>,
                  size |-> size, verbose |-> verbose, n |-> 0,
                  bar |-> IF PlainCopy(LoggerLevel(verbose), size) THEN "none" ELSE "open"]

mainVars == <<L, cfgfile, args, overwrite, remove, fs, pc, pass, overwritten_count, skipped_count,
              total_count, icloud_photos, opened, summary, photos_for_removal, printed,
              confirms, answer, removed, report, fs_start, fs_removal, prev, handles, api>>

\* One round of the copy loop: read a chunk, write it, report its length.
CopyChunk ==
    /\ copy.pc = "copying"
    /\ ReadChunk(copy) # <<>>
    /\ LET chunk == ReadChunk(copy)
       IN  copy' = [copy EXCEPT
                      !.fsrc = SubSeq(@, Len(chunk) + 1, Len(@)),
                      !.fdst = @ \o chunk,
                      !.n = IF copy.bar = "open" THEN @ + Len(chunk) ELSE @]
    /\ UNCHANGED <<mainVars, downloaded_count, err>>

\* The read returns nothing: the loop ends and the progress bar is closed.
CopyEnd ==
    /\ copy.pc = "copying"
    /\ ReadChunk(copy) = <<>>
    /\ copy' = [copy EXCEPT !.pc = "copied",
                            !.bar = IF @ = "open" THEN "closed" ELSE @]
    /\ UNCHANGED <<mainVars, downloaded_count, err>>

\* A read or a write raises.
CopyRaises ==
    /\ copy.pc = "copying"
    /\ copy' = [copy EXCEPT !.pc = "raised",
                            !.bar = IF @ = "open" THEN "closed" ELSE @]
    /\ err' = "copy_error"
    /\ UNCHANGED <<mainVars, downloaded_count>>

\* _copyfileobj returned: the with block ends and the item is counted.
CopyReturn ==
    /\ copy.pc = "copied"
    /\ copy' = [copy EXCEPT !.pc = "counted"]
    /\ downloaded_count' = DownloadedAfter(downloaded_count, "download-new", "ok")
    /\ UNCHANGED <<mainVars, err>>

NextCopy ==
    \/ CopyChunk
    \/ CopyEnd
    \/ CopyRaises
    \/ CopyReturn

\* One transfer, followed read by read.
SpecCopy == InitCopy /\ [][NextCopy]_vars

\* ---------------------------------------------------------------- properties
\* remove_missing has been entered.
InRemoval ==
    \/ pc \in {"scanned", "confirm", "unlink"}
    \/ confirms > 0
    \/ report.kind # "none"

\* C1: in remove_missing nothing is deleted unless click.confirm answered yes;
\* the confirmation is asked at most once, and only once the whole candidate
\* set has been computed from the directory and every candidate name printed;
\* after a negative answer, or with no candidate, the destination is exactly
\* as remove_missing found it.
C1_NoDeletionWithoutConfirmation ==
    /\ confirms <= 1
    /\ removed # {} => (confirms = 1 /\ answer = "yes")
    /\ confirms > 0 =>
        /\ photos_for_removal =
             { n \in Names : fs_removal[n].kind = "file"
                             /\ Join(destination, n) \notin icloud_photos }
        /\ photos_for_removal # {}
        /\ printed = photos_for_removal
    /\ (InRemoval /\ answer # "yes") => (fs = fs_removal /\ removed = {})
    /\ (InRemoval /\ photos_for_removal = {}) => (fs = fs_removal /\ confirms = 0)

\* A confirmed removal that deleted files and reported them.
C1_Witness ==
    /\ report.kind = "removed"
    /\ removed # {}
    /\ answer = "yes"

\* C2: whatever the ownership set and the answer, remove_missing deletes no
\* path of the ownership set: every owned entry is as remove_missing found it.
C2_OwnedNeverDeleted ==
    /\ removed \cap icloud_photos = {}
    /\ InRemoval =>
        \A n \in Names :
            Join(destination, n) \in icloud_photos => fs[n] = fs_removal[n]

\* A removal deleted a file while an owned regular file stayed.
C2_Witness ==
    /\ removed # {}
    /\ \E n \in Names : Join(destination, n) \in icloud_photos /\ fs[n].kind = "file"

\* C3: remove_missing is entered only after download_photos returned normally
\* having iterated the whole listing; when download_photos raised, this run
\* never enters remove_missing and deletes nothing.
C3_RemovalOnlyAfterCompleteDownload ==
    /\ InRemoval =>
        /\ summary # <<>>
        /\ total_count = Len(L)
        /\ icloud_photos = Targets(Len(L))
        /\ err \notin DownloadErrors
    /\ err \in DownloadErrors =>
        /\ ~InRemoval
        /\ removed = {}
        /\ photos_for_removal = {}

\* download_photos failed part-way with removal enabled and an unowned
\* regular file present, and the run ended there.
C3_Witness ==
    /\ pc = "failed"
    /\ err \in DownloadErrors
    /\ remove
    /\ total_count < Len(L)
    /\ \E n \in Names : fs[n].kind = "file" /\ Join(destination, n) \notin icloud_photos

\* download_photos is running or has ended, and remove_missing has not begun.
InDownload == pc \in {"loop", "returned", "failed"} /\ ~InRemoval

\* The filenames of the listing.
ListedNames == { L[i] : i \in 1..Len(L) }

\* No two items of the listing have the same filename.
DistinctNames == Cardinality(ListedNames) = Len(L)

\* C4 as claimed: from an empty destination, overwrite disabled, every
\* listing (repeated filenames included) ends with downloaded = |L|,
\* skipped = 0 and one ownership entry per distinct target path.
C4_Original ==
    (pc = "returned" /\ pass = 1 /\ ~overwrite
        /\ \A n \in Names : fs_start[n].kind = "absent") =>
        /\ downloaded_count = Len(L)
        /\ skipped_count = 0
        /\ icloud_photos = Targets(Len(L))

\* C4 amended: from an empty destination, overwrite disabled, a run that
\* returns normally ends with downloaded = the number of distinct target paths
\* of L, skipped = |L| minus that number (a repeated filename is skipped as
\* existing), and an ownership set of exactly one entry per distinct target
\* path; downloaded = |L| and skipped = 0 when no filename repeats.
C4_EmptyDestinationCounts ==
    (pc = "returned" /\ pass = 1 /\ ~overwrite
        /\ \A n \in Names : fs_start[n].kind = "absent") =>
        /\ downloaded_count = Cardinality(ListedNames)
        /\ skipped_count = Len(L) - Cardinality(ListedNames)
        /\ icloud_photos = { Join(destination, n) : n \in ListedNames }
        /\ Cardinality(icloud_photos) = Cardinality(ListedNames)
        /\ DistinctNames => (downloaded_count = Len(L) /\ skipped_count = 0)

\* An empty destination and a listing that repeats a filename, run to the end.
C4_Witness ==
    /\ pc = "returned" /\ pass = 1 /\ ~overwrite
    /\ \A n \in Names : fs_start[n].kind = "absent"
    /\ Len(L) = 2 /\ L[1] = L[2]
    /\ skipped_count = 1

\* Every listed target is a regular file for os.path.isfile when
\* download_photos starts.
AllTargetsExist == \A n \in ListedNames : fs_start[n].kind \in {"file", "link"}

\* C5: when every item's target already exists as a regular file and overwrite
\* is disabled, download_photos opens no content stream and changes no file,
\* and ends with skipped = |L| and downloaded = 0.
C5_AllExistingSkipped ==
    (InDownload /\ ~overwrite /\ AllTargetsExist) =>
        /\ opened = 0
        /\ fs = fs_start
        /\ downloaded_count = 0
        /\ overwritten_count = 0
        /\ skipped_count = total_count
        /\ pc = "returned" => skipped_count = Len(L)

\* Two existing files listed, both skipped.
C5_Witness ==
    /\ pc = "returned" /\ ~overwrite /\ AllTargetsExist
    /\ Len(L) = 2 /\ L[1] # L[2]
    /\ skipped_count = 2

\* C6: a second download_photos with overwrite disabled, on the same listing
\* and the destination a first normally returned run (overwrite disabled)
\* left, changes nothing in the directory and skips every item.
C6_SecondRunAllSkips ==
    (pass > 1 /\ InDownload /\ prev.ok /\ ~prev.overwrite /\ ~overwrite) =>
        /\ fs = prev.fs
        /\ opened = 0
        /\ downloaded_count = 0
        /\ skipped_count = total_count
        /\ pc = "returned" => skipped_count = Len(L)

\* A second run returned after a first run that wrote a file through a
\* dangling symbolic link and created another.
C6_Witness ==
    /\ pass > 1 /\ pc = "returned" /\ prev.ok /\ ~prev.overwrite /\ ~overwrite
    /\ Len(L) = 2
    /\ \E n \in ListedNames : fs[n].kind = "link" /\ fs[n].content.item > 0
    /\ \E n \in ListedNames : fs[n].kind = "file" /\ fs[n].content.item > 0

\* One run with overwrite disabled and removal enabled ended normally, after a
\* confirmed removal or with nothing to remove, on a listing of distinct names.
ReconciledRun ==
    /\ pc = "done" /\ pass = 1
    /\ remove /\ ~overwrite
    /\ DistinctNames
    /\ report.kind \in {"removed", "nothing"}

\* What C7 states of such a run, D being the regular files at the start.
ReconciledResult ==
    LET D == RegularFiles(fs_start)
    IN  /\ skipped_count = Cardinality(ListedNames \cap D)
        /\ downloaded_count = Cardinality(ListedNames \ D)
        /\ photos_for_removal = D \ ListedNames
        /\ RegularFiles(fs) = ListedNames

\* C7 as claimed: for any destination whose top-level regular files are D.
C7_Original == ReconciledRun => ReconciledResult

\* C7 amended: for a destination whose top-level regular files are D and in
\* which no filename of L is a symbolic link, download then confirmed removal
\* gives skipped = |names(L) /\ D|, downloaded = |names(L) \ D|, candidates
\* D \ names(L) and final regular files exactly names(L).
C7_Reconciliation ==
    (ReconciledRun /\ \A n \in ListedNames : fs_start[n].kind \notin {"link", "dangling"})
        => ReconciledResult

\* D = {a.jpg, b.jpg}, L = [b.jpg, c.jpg]: one skipped, one downloaded, a.jpg
\* removed.
C7_Witness ==
    /\ ReconciledRun
    /\ RegularFiles(fs_start) = {"a.jpg", "b.jpg"}
    /\ L = <<"b.jpg", "c.jpg">>
    /\ skipped_count = 1 /\ downloaded_count = 1
    /\ removed = {Join(destination, "a.jpg")}
    /\ RegularFiles(fs) = {"b.jpg", "c.jpg"}

\* C8 as claimed: at normal completion downloaded + overwritten + skipped =
\* total = |L|.
C8_Original ==
    pc = "returned" =>
        /\ downloaded_count + overwritten_count + skipped_count = total_count
        /\ total_count = Len(L)

\* A step of download_photos: no counter decreases, total grows by at most
\* one, and an item processed without error adds one to exactly one of skipped
\* and downloaded, overwritten growing only together with downloaded.
CountersStep ==
    pass' = pass =>
        /\ downloaded_count' >= downloaded_count
        /\ overwritten_count' >= overwritten_count
        /\ skipped_count' >= skipped_count
        /\ total_count' \in {total_count, total_count + 1}
        /\ overwritten_count' \in {overwritten_count, overwritten_count + 1}
        /\ (total_count' = total_count + 1 /\ pc' = "loop") =>
            /\ (skipped_count' - skipped_count) + (downloaded_count' - downloaded_count) = 1
            /\ overwritten_count' > overwritten_count => downloaded_count' > downloaded_count
        /\ total_count' = total_count =>
            UNCHANGED <<downloaded_count, overwritten_count, skipped_count>>

\* C8 amended: per item total is incremented once and exactly one of skipped
\* and downloaded is incremented, overwritten being incremented in addition to
\* downloaded for an overwrite; at normal completion downloaded + skipped =
\* total = |L| and overwritten <= downloaded; no counter decreases or is reset
\* during the run.
C8_CountersClassifiedOnce ==
    /\ [](pc = "returned" =>
            /\ downloaded_count + skipped_count = total_count
            /\ total_count = Len(L)
            /\ overwritten_count <= downloaded_count)
    /\ [][CountersStep]_vars

\* A run that overwrote one file and downloaded a new one.
C8_Witness ==
    /\ pc = "returned"
    /\ overwritten_count = 1
    /\ downloaded_count = 2

\* C9: the ownership set holds exactly the target path of every item taken
\* from the listing so far, whatever branch the item took, and at normal
\* return exactly { join(destination, item.filename) : item in L }.
C9_OwnershipSetExact ==
    /\ icloud_photos = { Join(destination, L[i]) : i \in 1..total_count }
    /\ pc = "returned" =>
        /\ icloud_photos = { Join(destination, n) : n \in ListedNames }
        /\ Cardinality(icloud_photos) = Cardinality(ListedNames)

\* A normally returned run that skipped one item and downloaded another.
C9_Witness ==
    /\ pc = "returned"
    /\ skipped_count = 1 /\ downloaded_count = 1
    /\ Cardinality(icloud_photos) = 2

\* C10 as claimed: after an os.unlink failure the other candidates are still
\* deleted and a removed count equal to the number of files deleted is reported.
C10_Original ==
    (err = "unlink" /\ pc \in {"done", "failed"}) =>
        /\ Cardinality(Pending) <= 1
        /\ report.kind = "removed"
        /\ report.count = Cardinality(removed)

\* C10 amended: an os.unlink failure is surfaced (the exception leaves
\* remove_missing), the candidates not yet deleted are left in place and no
\* removed count is reported; a removed count is reported only when every
\* candidate was deleted, and then equals the number of files deleted.
C10_UnlinkFailureAborts ==
    /\ err = "unlink" =>
        /\ pc = "failed"
        /\ report.kind = "none"
        /\ Pending # {}
        /\ \A n \in Pending : fs[n] = fs_removal[n]
    /\ report.kind = "removed" =>
        /\ err = "none"
        /\ report.count = Cardinality(removed)
        /\ removed = { Join(destination, n) : n \in photos_for_removal }
        /\ \A n \in photos_for_removal : fs[n].kind = "absent"

\* A removal that deleted one candidate and failed on another.
C10_Witness ==
    /\ err = "unlink"
    /\ removed # {}
    /\ Pending # {}

\* Errors raised by the transfer of one item (l.181-184).
TransferErrors == {"download_error", "open_error", "copy_error"}

\* C11: a transfer failure on one item ends the run there: the exception
\* leaves download_photos, the failing item is the last one taken from the
\* listing (counted in total, in neither skipped nor downloaded), no later
\* item is classified, transferred or counted, the summary line is not
\* printed, and remove_missing is not entered.
C11_TransferFailureIsFatal ==
    err \in TransferErrors =>
        /\ pc = "failed"
        /\ summary = <<>>
        /\ total_count >= 1
        /\ downloaded_count + skipped_count = total_count - 1
        /\ icloud_photos = Targets(total_count)
        /\ \A n \in Names :
             (\A i \in 1..total_count : L[i] # n) => fs[n] = fs_start[n]
        /\ ~InRemoval

\* The first of two items failed during the copy; the second, a new file, was
\* never downloaded.
C11_Witness ==
    /\ pc = "failed"
    /\ err = "copy_error"
    /\ total_count = 1
    /\ Len(L) = 2
    /\ L[1] # L[2]
    /\ fs[L[2]].kind = "absent"

\* The previous download_photos failed during the copy of item prev.at.
AfterFailedCopy == pass > 1 /\ prev.err = "copy_error" /\ InDownload

\* The last item of the listing with filename n.
LastItem(n) == CHOOSE i \in 1..Len(L) : L[i] = n /\ \A j \in (i + 1)..Len(L) : L[j] # n

\* C13: a copy that fails mid-stream leaves the partial file in place; the next
\* download_photos with overwrite disabled skips that item (and every item
\* before it) and leaves the partial content; with overwrite enabled a run
\* that returns normally has replaced it with complete remote content.
C13_PartialFileStaysUntilOverwrite ==
    AfterFailedCopy =>
        LET n == L[prev.at]
        IN  /\ prev.fs[n].content = PartialContent(prev.at)
            /\ prev.fs[n].kind \in {"file", "link"}
            /\ ~overwrite =>
                /\ fs[n] = prev.fs[n]
                /\ total_count <= prev.at => skipped_count = total_count
                /\ total_count >= prev.at => skipped_count >= prev.at
            /\ (overwrite /\ pc = "returned") =>
                /\ fs[n].content = FullContent(LastItem(n))
                /\ overwritten_count >= 1

\* A second run without overwrite returned, the partial file still there.
C13_Witness ==
    /\ AfterFailedCopy
    /\ ~overwrite
    /\ pc = "returned"
    /\ fs[L[prev.at]].content.state = "partial"
    /\ skipped_count = 2

\* C12: whatever size is declared (less than, equal to or more than the bytes
\* the stream yields, zero or negative), a copy that raises nothing writes
\* exactly the bytes of the stream, in order, and the item is then counted as
\* downloaded; a copy ends in an error only when a read or a write raised.
C12_DeclaredSizeIsAdvisory ==
    /\ copy.pc = "copying" => copy.fdst \o copy.fsrc = copy.data
    /\ copy.pc \in {"copied", "counted"} =>
        /\ copy.fdst = copy.data
        /\ copy.fsrc = <<>>
        /\ err = "none"
    /\ copy.pc = "counted" => downloaded_count = 1
    /\ copy.pc = "raised" => err = "copy_error"
    /\ copy.bar # "none" => copy.n = Len(copy.fdst)

\* Three bytes copied under a progress bar whose total was declared as two.
C12_Witness ==
    /\ copy.pc = "counted"
    /\ Len(copy.data) = 3
    /\ copy.size = 2
    /\ copy.bar = "closed"
    /\ copy.n = 3

\* C14: for every item transferred, the sink file handle and the stream handle
\* from photo.download() are closed on every exit path: no handle is open
\* between two iterations, when download_photos returns, or when an exception
\* leaves it.
C14_Original == handles = {}

\* C15: remove_missing considers and deletes top-level regular files only: a
\* symbolic link, a directory and the files inside it are never candidates
\* and stay as remove_missing found them, owned or not.
C15_OnlyTopLevelRegularFiles ==
    InRemoval =>
        /\ \A n \in photos_for_removal : fs_removal[n].kind = "file"
        /\ \A n \in Names :
             fs_removal[n].kind # "file" =>
                /\ fs[n] = fs_removal[n]
                /\ Join(destination, n) \notin removed

\* A removal deleted a file while an unowned symbolic link or directory stayed.
C15_Witness ==
    /\ removed # {}
    /\ report.kind = "removed"
    /\ \E n \in Names :
         /\ fs[n].kind \in {"link", "dangling", "dir"}
         /\ Join(destination, n) \notin icloud_photos

\* os.path.isfile was true for item i's target when item i was processed: the
\* file was there at the start, or an earlier item of the run wrote it.
ExistedWhenProcessed(i) ==
    \/ fs_start[L[i]].kind \in {"file", "link"}
    \/ \E j \in 1..(i - 1) : L[j] = L[i]

\* C16: with overwrite enabled download_photos never skips: every item is
\* transferred, overwritten counts exactly the items whose target was a
\* regular file when they were processed, and after a normal return each
\* target holds the content of the last item of L that maps to it.
C16_OverwriteNeverSkips ==
    (overwrite /\ InDownload) =>
        /\ skipped_count = 0
        /\ overwritten_count =
             Cardinality({ i \in 1..total_count : ExistedWhenProcessed(i) })
        /\ pc = "returned" =>
            /\ downloaded_count = Len(L)
            /\ opened = Len(L)
            /\ \A n \in ListedNames : fs[n].content = FullContent(LastItem(n))

\* An existing file overwritten twice by two items of the same name.
C16_Witness ==
    /\ overwrite
    /\ pc = "returned"
    /\ Len(L) = 2 /\ L[1] = L[2]
    /\ overwritten_count = 2
    /\ fs[L[1]].content = FullContent(2)

\* C17: downloaded + skipped is the number of items fully processed, never
\* more than total: equal to total between iterations and at normal return,
\* one less when a transfer raised; at normal return overwritten <= downloaded
\* and downloaded counts every item written (each opened stream), overwritten
\* ones included.
C17_CounterInvariant ==
    /\ downloaded_count + skipped_count <= total_count
    /\ total_count <= Len(L)
    /\ pc = "loop" => downloaded_count + skipped_count = total_count
    /\ (pc = "failed" /\ err \in TransferErrors) =>
          downloaded_count + skipped_count = total_count - 1
    /\ pc = "returned" =>
        /\ downloaded_count + skipped_count = total_count
        /\ total_count = Len(L)
        /\ overwritten_count <= downloaded_count
        /\ downloaded_count = opened
        /\ overwrite => overwritten_count =
                          Cardinality({ i \in 1..Len(L) : ExistedWhenProcessed(i) })

\* An overwrite whose transfer raised: overwritten is ahead of downloaded.
C17_Witness ==
    /\ pc = "failed"
    /\ err \in TransferErrors
    /\ overwritten_count = 1
    /\ downloaded_count = 0

\* ---------------------------------------------------------------- C18
\* The option is given the value false in [main] of the config file and the
\* command line does not give it.
DisabledInFile(o) == cfgfile[o] = PyStr("false") /\ args[o] = Missing

\* C18: an option disabled in the config file and not given on the command
\* line behaves as disabled: with overwrite = false download_photos counts no
\* overwrite and leaves every existing local file as it was, and with
\* remove = false remove_missing is never invoked.
C18_Original ==
    /\ (DisabledInFile("overwrite") /\ InDownload) =>
           /\ overwritten_count = 0
           /\ \A n \in Names : fs_start[n].kind = "file" => fs[n] = fs_start[n]
    /\ DisabledInFile("remove") => ~InRemoval

\* ---------------------------------------------------------------- C19
\* connect_to_icloud has not returned: it is running, or it raised.
Connecting ==
    \/ pc \in {"connect", "send_verification_code", "validate_verification_code"}
    \/ pc = "failed" /\ err \in ConnectErrors

\* The destination is as the program found it and neither download_photos
\* nor remove_missing has started.
Untouched ==
    /\ fs = fs_start
    /\ pass = 0
    /\ total_count = 0
    /\ opened = 0
    /\ icloud_photos = {}
    /\ handles = {}
    /\ removed = {}
    /\ ~InRemoval

\* A connection that failed ends the run: no step follows it.
ConnectFailureStep == (pc = "failed" /\ err \in ConnectErrors) => UNCHANGED vars

\* C19: until connect_to_icloud has returned nothing is written or deleted
\* and neither download_photos nor remove_missing has started; when two-step
\* authentication is required it returns only once a code was sent and
\* validated; a failure of either step ends the run, destination untouched.
C19_NothingBeforeConnection ==
    /\ [](/\ Connecting => Untouched
          /\ (~Connecting /\ api.requires_2sa) => (api.sent /\ api.validated)
          /\ (api.requires_2sa /\ ~api.sent) => pc \in {"send_verification_code", "failed"}
          /\ (api.sent /\ ~api.validated) => pc \in {"validate_verification_code", "failed"})
    /\ [][ConnectFailureStep]_vars

C19_Witness ==
    /\ pc = "returned"
    /\ api.requires_2sa /\ api.sent /\ api.validated
    /\ downloaded_count = Len(L)
    /\ Len(L) = MaxLen

====
